---- MODULE Spec2Model ----
(***************************************************************************)
(* Model of src/image_analysis.py: the LHRR re-ranking pipeline            *)
(* (calculate_similarity, rank_normalization, hypergraph construction,     *)
(* edge associations and weights, hyperedge similarities, membership       *)
(* matrix C, affinity matrix F), the refinement loop of __main__ and the   *)
(* retrieval with calculate_accuracy.                                      *)
(*                                                                         *)
(* Numbers.  The program computes in binary floating point.  A float is    *)
(* modelled as a pair <<m, e>> standing for m * 2^e, with m = 0 (and       *)
(* e = 0) or 2^(Prec-1) <= |m| < 2^Prec.  Every arithmetic operation       *)
(* rounds its exact result to Prec significant bits, ties to even, as      *)
(* IEEE-754 does with 53 bits.  The exponent is unbounded: the values of   *)
(* the pipeline stay far from the overflow and underflow thresholds.       *)
(*                                                                         *)
(* Items.  Ids are 0..N-1 as in the source.  A feature vector has one      *)
(* component, so np.linalg.norm(.., axis=1) is the absolute difference.    *)
(* Python lists that are indexed by item id are functions on 0..N-1;       *)
(* lists that are sorted or sliced are sequences (position 1 first).       *)
(***************************************************************************)
EXTENDS Integers, Sequences, FiniteSets

\* ------------------------------------------------------------------------
\* Bounds of the model
\* ------------------------------------------------------------------------
Prec == 8          \* significant bits of a float
MaxN == 4          \* largest number of items
MaxK == 4          \* largest hyperedge size k
MaxIter == 2       \* largest number_of_iterations

\* ------------------------------------------------------------------------
\* Floating point
\* ------------------------------------------------------------------------
Man(x) == x[1]
Exp(x) == x[2]

Pow2(n) == 2 ^ n

RECURSIVE BitLen(_)
BitLen(a) == IF a = 0 THEN 0 ELSE 1 + BitLen(a \div 2)

AbsInt(n) == IF n < 0 THEN -n ELSE n
SignInt(n) == IF n < 0 THEN -1 ELSE 1

\* m * 2^e rounded to Prec significant bits, round-half-to-even.
Round(m, e) ==
  IF m = 0 THEN <<0, 0>>
  ELSE LET s  == SignInt(m)
           a  == AbsInt(m)
           bl == BitLen(a)
       IN IF bl <= Prec
          THEN <<s * a * Pow2(Prec - bl), e - (Prec - bl)>>
          ELSE LET sh   == bl - Prec
                   q    == a \div Pow2(sh)
                   r    == a % Pow2(sh)
                   half == Pow2(sh - 1)
                   q1   == IF r > half \/ (r = half /\ q % 2 = 1)
                           THEN q + 1 ELSE q
               IN IF q1 = Pow2(Prec)
                  THEN <<s * (q1 \div 2), e + sh + 1>>
                  ELSE <<s * q1, e + sh>>

FromInt(n) == Round(n, 0)
FZero == <<0, 0>>
FOne == FromInt(1)

FNeg(a) == <<-Man(a), Exp(a)>>
FAbs(a) == <<AbsInt(Man(a)), Exp(a)>>

FMul(a, b) == Round(Man(a) * Man(b), Exp(a) + Exp(b))

\* The operand of smaller exponent is below half an ulp of the other one
\* when the exponents differ by more than Prec + 1.
FAddOrdered(a, b) ==
  LET d == Exp(a) - Exp(b)
  IN IF d > Prec + 1 THEN a
     ELSE Round(Man(a) * Pow2(d) + Man(b), Exp(b))

FAdd(a, b) ==
  IF Man(a) = 0 THEN b
  ELSE IF Man(b) = 0 THEN a
  ELSE IF Exp(a) >= Exp(b) THEN FAddOrdered(a, b) ELSE FAddOrdered(b, a)

FSub(a, b) == FAdd(a, FNeg(b))

\* a / b for b # 0: Prec + 2 quotient bits and a sticky bit, then rounded.
FDiv(a, b) ==
  IF Man(a) = 0 THEN FZero
  ELSE LET s == SignInt(Man(a)) * SignInt(Man(b))
           n == AbsInt(Man(a)) * Pow2(Prec + 2)
           d == AbsInt(Man(b))
           q == n \div d
           sticky == IF n % d = 0 THEN 0 ELSE 1
       IN Round(s * (2 * q + sticky), Exp(a) - Exp(b) - (Prec + 2) - 1)

FLt(a, b) == Man(FSub(a, b)) < 0
FLe(a, b) == Man(FSub(a, b)) <= 0

\* Natural logarithms of 1..8 in units of 2^-20 (math.log of one argument).
LnTable == <<0, 726817, 1151978, 1453635, 1687618, 1878796, 2040435, 2180452>>
Ln(n) == Round(LnTable[n], -20)

\* math.log(x, base) is log(x) / log(base).
Log(x, base) == FDiv(Ln(x), Ln(base))

\* ------------------------------------------------------------------------
\* State
\* ------------------------------------------------------------------------
VARIABLES
  features,                      \* item id -> feature (one component)
  k,                             \* hyperedge size
  number_of_iterations,          \* rounds of the refinement loop
  pc,                            \* next statement of __main__
  i,                             \* loop variable of the refinement loop
  similarity_scores,             \* item -> position -> <<id, score>>
  normalized_similarity_scores,  \* item -> sequence of <<id, rank>>
  hyperedges,                    \* item -> sequence of ids
  edge_associations,             \* A
  edge_weights,                  \* w
  hyperedges_similarities,       \* S
  matrix_c,                      \* C
  affinity_matrix,               \* F
  retrieved_images,              \* sequence of <<id, score>>
  accuracy,                      \* result of calculate_accuracy
  error                          \* exception that ended the run

vars == <<features, k, number_of_iterations, pc, i, similarity_scores,
          normalized_similarity_scores, hyperedges, edge_associations,
          edge_weights, hyperedges_similarities, matrix_c, affinity_matrix,
          retrieved_images, accuracy, error>>

N == Cardinality(DOMAIN features)
Items == 0 .. (N - 1)

QueryImageIndex == 0
TopK == 5
Labels == {0, 1}

\* Feature values 0, 2u and 3u with u = 2^-18: the distances u and 2u are
\* below the zero-distance constant 0.00001, the distance 3u is above it,
\* and equal features give the distance 0.
FeatureValues == {FZero, Round(2, -18), Round(3, -18)}

\* Feature values of the end-to-end scenario: the former, and 1, 8, 9.
ScenarioFeatureValues == FeatureValues \cup {FOne, FromInt(8), FromInt(9)}

\* ------------------------------------------------------------------------
\* calculate_similarity
\* ------------------------------------------------------------------------
ZeroDistance == FDiv(FOne, FromInt(100000))

\* Mutant: the norm replaced by the signed difference.
DistanceSigned(fs, a, b) == FSub(fs[b], fs[a])

Distance(fs, a, b) == FAbs(FSub(fs[b], fs[a]))

Score(fs, a, b) ==
  LET d == Distance(fs, a, b)
  IN FDiv(FOne, IF d = FZero THEN ZeroDistance ELSE d)

calculate_similarity(fs) ==
  [a \in DOMAIN fs |-> [b \in DOMAIN fs |-> <<b, Score(fs, a, b)>>]]

\* ------------------------------------------------------------------------
\* rank_normalization
\* ------------------------------------------------------------------------
\* Mutant: the rank reads item a's row only.
RankOneSided(sl, a, b) ==
  LET L == Cardinality(DOMAIN sl[0])
  IN FSub(FromInt(2 * L), FAdd(sl[a][b][2], sl[a][b][2]))

Rank(sl, a, b) ==
  LET L == Cardinality(DOMAIN sl[0])
  IN FSub(FromInt(2 * L), FAdd(sl[a][b][2], sl[b][a][2]))

\* Mutant: an unstable sort, x goes before the elements equal to it.
InsertAscendingUnstable(s, x) ==
  LET pos == Cardinality({p \in 1 .. Len(s) : FLt(s[p][2], x[2])})
  IN SubSeq(s, 1, pos) \o <<x>> \o SubSeq(s, pos + 1, Len(s))

\* x goes behind every element that is not greater than it: sorted() is
\* stable.
InsertAscending(s, x) ==
  LET pos == Cardinality({p \in 1 .. Len(s) : ~FLt(x[2], s[p][2])})
  IN SubSeq(s, 1, pos) \o <<x>> \o SubSeq(s, pos + 1, Len(s))

RECURSIVE SortedAscending(_)
SortedAscending(s) ==
  IF s = <<>> THEN <<>>
  ELSE InsertAscending(SortedAscending(SubSeq(s, 1, Len(s) - 1)), s[Len(s)])

Ranks(sl, a) == [p \in 1 .. Cardinality(DOMAIN sl[a]) |-> <<p - 1, Rank(sl, a, p - 1)>>]

rank_normalization(sl) ==
  [a \in DOMAIN sl |-> SortedAscending(Ranks(sl, a))]

\* ------------------------------------------------------------------------
\* get_hypergraph_construction
\* ------------------------------------------------------------------------
\* similarity_scores[i][j] with j >= len raises IndexError.
HypergraphRaises(nss, kk) == \E a \in DOMAIN nss : kk > Len(nss[a])

get_hypergraph_construction(nss, kk) ==
  [a \in DOMAIN nss |-> [p \in 1 .. kk |-> nss[a][p][1]]]

\* ------------------------------------------------------------------------
\* create_edge_associations
\* ------------------------------------------------------------------------
Member(e, v) == \E p \in 1 .. Len(e) : e[p] = v
IndexOf(e, v) == CHOOSE p \in 1 .. Len(e) : e[p] = v /\ \A q \in 1 .. (p - 1) : e[q] # v

\* Mutant: the logarithm taken to base k.
AssociationBaseK(position, kk) == FSub(FOne, Log(position, kk))

Association(position, kk) == FSub(FOne, Log(position, kk + 1))

create_edge_associations(hs, kk) ==
  [a \in DOMAIN hs |-> [b \in DOMAIN hs |->
     IF Member(hs[a], b) THEN Association(IndexOf(hs[a], b), kk) ELSE FZero]]

\* ------------------------------------------------------------------------
\* create_edge_weights
\* ------------------------------------------------------------------------
RECURSIVE SumAssociations(_, _, _)
SumAssociations(row, e, n) ==
  IF n = 0 THEN FZero
  ELSE FAdd(SumAssociations(row, e, n - 1), row[e[n]])

\* Mutant: the two indices of edge_associations swapped.
EdgeWeightSwapped(hs, ea, a) ==
  SumAssociations([v \in DOMAIN ea |-> ea[v][a]], hs[a], Len(hs[a]))

EdgeWeight(hs, ea, a) == SumAssociations(ea[a], hs[a], Len(hs[a]))

create_edge_weights(hs, ea) == [a \in DOMAIN hs |-> EdgeWeight(hs, ea, a)]

\* ------------------------------------------------------------------------
\* get_hyperedges_similarities
\* ------------------------------------------------------------------------
RECURSIVE Dot(_, _, _)
Dot(u, v, n) ==
  IF n = 0 THEN FZero
  ELSE FAdd(Dot(u, v, n - 1), FMul(u[n - 1], v[n - 1]))

Transpose(m) == [a \in DOMAIN m |-> [b \in DOMAIN m |-> m[b][a]]]

MatMulTransposed(m) ==
  [a \in DOMAIN m |-> [b \in DOMAIN m |-> Dot(m[a], m[b], Cardinality(DOMAIN m))]]

Hadamard(x, y) == [a \in DOMAIN x |-> [b \in DOMAIN x |-> FMul(x[a][b], y[a][b])]]

get_hyperedges_similarities(im) ==
  LET Similarity_matrix_h == MatMulTransposed(im)
      Similarity_matrix_u == MatMulTransposed(Transpose(im))
  IN Hadamard(Similarity_matrix_h, Similarity_matrix_u)

\* ------------------------------------------------------------------------
\* get_cartesian_product_of_hyperedge_elements
\* ------------------------------------------------------------------------
MembershipDegree(ew, ea, a, vertices1, vertices2) ==
  FMul(FMul(ew[a], ea[a][vertices1]), ea[a][vertices2])

\* matrix_c[v1][v2] after the hyperedges 0 .. n-1.  The ids of a hyperedge
\* are distinct, so the pair (v1, v2) occurs once in its cartesian product,
\* and only when both are members.
RECURSIVE AccumulateC(_, _, _, _, _, _)
AccumulateC(ew, ea, hs, v1, v2, n) ==
  IF n = 0 THEN FZero
  ELSE LET a == n - 1
           before == AccumulateC(ew, ea, hs, v1, v2, n - 1)
       IN IF Member(hs[a], v1) /\ Member(hs[a], v2)
          THEN FAdd(before, MembershipDegree(ew, ea, a, v1, v2))
          ELSE before

get_cartesian_product_of_hyperedge_elements(ew, ea, hs) ==
  [v1 \in DOMAIN hs |-> [v2 \in DOMAIN hs |->
     AccumulateC(ew, ea, hs, v1, v2, Cardinality(DOMAIN hs))]]

\* ------------------------------------------------------------------------
\* get_hypergrapgh_based_simalarity
\* ------------------------------------------------------------------------
get_hypergrapgh_based_simalarity(mc, hsim) == Hadamard(mc, hsim)

\* ------------------------------------------------------------------------
\* __main__: affinity matrix re-expressed as similarity rows
\* ------------------------------------------------------------------------
\* Mutant: the row index is stored as the id.
AffinityMatrixListRowId(am) ==
  [h \in DOMAIN am |-> [j \in DOMAIN am |-> <<h, am[h][j]>>]]

AffinityMatrixList(am) ==
  [h \in DOMAIN am |-> [j \in DOMAIN am |-> <<j, am[h][j]>>]]

\* ------------------------------------------------------------------------
\* __main__: retrieval, calculate_accuracy
\* ------------------------------------------------------------------------
RECURSIVE NonZeroScores(_, _)
NonZeroScores(row, n) ==
  IF n = 0 THEN <<>>
  ELSE LET rest == NonZeroScores(row, n - 1)
       IN IF row[n - 1][2] # FZero THEN Append(rest, row[n - 1]) ELSE rest

\* Mutant: reverse=True dropped, the scores sorted ascending.
InsertDescendingNotReversed(s, x) ==
  LET pos == Cardinality({p \in 1 .. Len(s) : ~FLt(x[2], s[p][2])})
  IN SubSeq(s, 1, pos) \o <<x>> \o SubSeq(s, pos + 1, Len(s))

\* sorted(.., reverse=True) keeps equal elements in their original order.
InsertDescending(s, x) ==
  LET pos == Cardinality({p \in 1 .. Len(s) : ~FLt(s[p][2], x[2])})
  IN SubSeq(s, 1, pos) \o <<x>> \o SubSeq(s, pos + 1, Len(s))

RECURSIVE SortedDescending(_)
SortedDescending(s) ==
  IF s = <<>> THEN <<>>
  ELSE InsertDescending(SortedDescending(SubSeq(s, 1, Len(s) - 1)), s[Len(s)])

Take(s, n) == SubSeq(s, 1, IF Len(s) < n THEN Len(s) ELSE n)

Retrieve(ss) ==
  Take(SortedDescending(NonZeroScores(ss[QueryImageIndex],
                                      Cardinality(DOMAIN ss[QueryImageIndex]))), TopK)

CountMatches(ri, label) ==
  Cardinality({p \in 1 .. Len(ri) : label[ri[p][1]] = label[QueryImageIndex]})

calculate_accuracy(ri, label) ==
  FMul(FDiv(FromInt(CountMatches(ri, label)), FromInt(Len(ri))), FromInt(100))

\* ------------------------------------------------------------------------
\* __main__
\* ------------------------------------------------------------------------
Unset == <<>>

InitWith(fs, kk, iters) ==
  /\ features = fs
  /\ k = kk
  /\ number_of_iterations = iters
  /\ pc = "calculate_similarity"
  /\ i = 0
  /\ similarity_scores = Unset
  /\ normalized_similarity_scores = Unset
  /\ hyperedges = Unset
  /\ edge_associations = Unset
  /\ edge_weights = Unset
  /\ hyperedges_similarities = Unset
  /\ matrix_c = Unset
  /\ affinity_matrix = Unset
  /\ retrieved_images = Unset
  /\ accuracy = Unset
  /\ error = "none"

\* The source fixes k = 5 (the default argument of both functions that take
\* it) and number_of_iterations = 9, and N is the dataset sample size; here
\* all three are inputs, as are the features.
Init ==
  \E n \in 2 .. MaxN :
    \E fs \in [0 .. (n - 1) -> FeatureValues] :
      \E kk \in 1 .. MaxK :
        \E iters \in 0 .. MaxIter :
          InitWith(fs, kk, iters)

CalculateSimilarity ==
  /\ pc = "calculate_similarity"
  /\ similarity_scores' = calculate_similarity(features)
  /\ pc' = IF i < number_of_iterations THEN "rank_normalization" ELSE "retrieve"
  /\ UNCHANGED <<features, k, number_of_iterations, i,
                 normalized_similarity_scores, hyperedges, edge_associations,
                 edge_weights, hyperedges_similarities, matrix_c,
                 affinity_matrix, retrieved_images, accuracy, error>>

RankNormalization ==
  /\ pc = "rank_normalization"
  /\ normalized_similarity_scores' = rank_normalization(similarity_scores)
  /\ pc' = "get_hypergraph_construction"
  /\ UNCHANGED <<features, k, number_of_iterations, i, similarity_scores,
                 hyperedges, edge_associations, edge_weights,
                 hyperedges_similarities, matrix_c, affinity_matrix,
                 retrieved_images, accuracy, error>>

GetHypergraphConstruction ==
  /\ pc = "get_hypergraph_construction"
  /\ IF HypergraphRaises(normalized_similarity_scores, k)
     THEN /\ error' = "IndexError"
          /\ pc' = "aborted"
          /\ UNCHANGED hyperedges
     ELSE /\ hyperedges' = get_hypergraph_construction(normalized_similarity_scores, k)
          /\ pc' = "create_edge_associations"
          /\ UNCHANGED error
  /\ UNCHANGED <<features, k, number_of_iterations, i, similarity_scores,
                 normalized_similarity_scores, edge_associations, edge_weights,
                 hyperedges_similarities, matrix_c, affinity_matrix,
                 retrieved_images, accuracy>>

CreateEdgeAssociations ==
  /\ pc = "create_edge_associations"
  /\ edge_associations' = create_edge_associations(hyperedges, k)
  /\ pc' = "create_edge_weights"
  /\ UNCHANGED <<features, k, number_of_iterations, i, similarity_scores,
                 normalized_similarity_scores, hyperedges, edge_weights,
                 hyperedges_similarities, matrix_c, affinity_matrix,
                 retrieved_images, accuracy, error>>

CreateEdgeWeights ==
  /\ pc = "create_edge_weights"
  /\ edge_weights' = create_edge_weights(hyperedges, edge_associations)
  /\ pc' = "get_hyperedges_similarities"
  /\ UNCHANGED <<features, k, number_of_iterations, i, similarity_scores,
                 normalized_similarity_scores, hyperedges, edge_associations,
                 hyperedges_similarities, matrix_c, affinity_matrix,
                 retrieved_images, accuracy, error>>

GetHyperedgesSimilarities ==
  /\ pc = "get_hyperedges_similarities"
  /\ hyperedges_similarities' = get_hyperedges_similarities(edge_associations)
  /\ pc' = "get_cartesian_product_of_hyperedge_elements"
  /\ UNCHANGED <<features, k, number_of_iterations, i, similarity_scores,
                 normalized_similarity_scores, hyperedges, edge_associations,
                 edge_weights, matrix_c, affinity_matrix, retrieved_images,
                 accuracy, error>>

GetCartesianProductOfHyperedgeElements ==
  /\ pc = "get_cartesian_product_of_hyperedge_elements"
  /\ matrix_c' = get_cartesian_product_of_hyperedge_elements(
                    edge_weights, edge_associations, hyperedges)
  /\ pc' = "get_hypergrapgh_based_simalarity"
  /\ UNCHANGED <<features, k, number_of_iterations, i, similarity_scores,
                 normalized_similarity_scores, hyperedges, edge_associations,
                 edge_weights, hyperedges_similarities, affinity_matrix,
                 retrieved_images, accuracy, error>>

GetHypergraphBasedSimilarity ==
  /\ pc = "get_hypergrapgh_based_simalarity"
  /\ affinity_matrix' = get_hypergrapgh_based_simalarity(matrix_c, hyperedges_similarities)
  /\ pc' = "update_similarity_scores"
  /\ UNCHANGED <<features, k, number_of_iterations, i, similarity_scores,
                 normalized_similarity_scores, hyperedges, edge_associations,
                 edge_weights, hyperedges_similarities, matrix_c,
                 retrieved_images, accuracy, error>>

\* The end of the loop body: the round is complete, the loop variable moves
\* on and the loop is left after number_of_iterations rounds.
UpdateSimilarityScores ==
  /\ pc = "update_similarity_scores"
  /\ similarity_scores' = AffinityMatrixList(affinity_matrix)
  /\ i' = i + 1
  /\ pc' = IF i + 1 < number_of_iterations THEN "rank_normalization" ELSE "retrieve"
  /\ UNCHANGED <<features, k, number_of_iterations,
                 normalized_similarity_scores, hyperedges, edge_associations,
                 edge_weights, hyperedges_similarities, matrix_c,
                 affinity_matrix, retrieved_images, accuracy, error>>

RetrieveImages ==
  /\ pc = "retrieve"
  /\ retrieved_images' = Retrieve(similarity_scores)
  /\ pc' = "calculate_accuracy"
  /\ UNCHANGED <<features, k, number_of_iterations, i, similarity_scores,
                 normalized_similarity_scores, hyperedges, edge_associations,
                 edge_weights, hyperedges_similarities, matrix_c,
                 affinity_matrix, accuracy, error>>

\* The labels belong to the dataset and are read here only.  count /
\* len(retrieved_images) raises ZeroDivisionError on an empty list.
CalculateAccuracy ==
  /\ pc = "calculate_accuracy"
  /\ IF Len(retrieved_images) = 0
     THEN /\ error' = "ZeroDivisionError"
          /\ pc' = "aborted"
          /\ UNCHANGED accuracy
     ELSE /\ \E label \in [Items -> Labels] :
               accuracy' = calculate_accuracy(retrieved_images, label)
          /\ pc' = "done"
          /\ UNCHANGED error
  /\ UNCHANGED <<features, k, number_of_iterations, i, similarity_scores,
                 normalized_similarity_scores, hyperedges, edge_associations,
                 edge_weights, hyperedges_similarities, matrix_c,
                 affinity_matrix, retrieved_images>>

Next ==
  \/ CalculateSimilarity
  \/ RankNormalization
  \/ GetHypergraphConstruction
  \/ CreateEdgeAssociations
  \/ CreateEdgeWeights
  \/ GetHyperedgesSimilarities
  \/ GetCartesianProductOfHyperedgeElements
  \/ GetHypergraphBasedSimilarity
  \/ UpdateSimilarityScores
  \/ RetrieveImages
  \/ CalculateAccuracy

Spec == Init /\ [][Next]_vars

\* The end-to-end scenario of the specification: four items, k = 2, one
\* round.
InitScenario ==
  \E fs \in [0 .. 3 -> ScenarioFeatureValues] : InitWith(fs, 2, 1)

SpecScenario == InitScenario /\ [][Next]_vars

\* ------------------------------------------------------------------------
\* Properties
\* ------------------------------------------------------------------------
Symmetric(m) == \A a \in DOMAIN m : \A b \in DOMAIN m : m[a][b] = m[b][a]

NonNegative(m) == \A a \in DOMAIN m : \A b \in DOMAIN m : Man(m[a][b]) >= 0

\* The value paired with id v in a ranked list.
RankValue(list, v) == list[CHOOSE p \in 1 .. Len(list) : list[p][1] = v][2]

\* C1: in every round the membership matrix C, the hyperedge similarity
\* matrix S and the affinity matrix F = C o S are symmetric,
\* M[a][b] = M[b][a] for all items a, b.
C1_DerivedMatricesSymmetric ==
  /\ matrix_c # Unset => Symmetric(matrix_c)
  /\ hyperedges_similarities # Unset => Symmetric(hyperedges_similarities)
  /\ affinity_matrix # Unset => Symmetric(affinity_matrix)

\* C2: whenever rank_normalization is about to be called,
\* similarity_scores[a][b] is the pair (b, score of b with respect to a):
\* the id at position b is b, and the score is the one calculate_similarity
\* computed (first round) or F[a][b] of the previous round (later rounds).
C2_AlignedAtRoundBoundary ==
  pc = "rank_normalization" =>
    \A a \in Items : \A b \in Items :
      /\ similarity_scores[a][b][1] = b
      /\ similarity_scores[a][b][2] =
           IF i = 0 THEN Score(features, a, b) ELSE affinity_matrix[a][b]

C2_Witness ==
  /\ pc = "rank_normalization"
  /\ i >= 1
  /\ \E a \in Items : \E b \in Items :
       a # b /\ similarity_scores[a][b][2] # FZero

\* C3: once get_hypergraph_construction has returned (k <= N), every
\* hyperedge has exactly k ids, they are the ids of the first k entries of
\* the item's ranked list, each paired there with its rank value, the rank
\* values are non-decreasing along the hyperedge, and ids of equal rank keep
\* their original position order.
C3_HyperedgeOrdered ==
  pc = "create_edge_associations" =>
    \A a \in Items :
      /\ Len(hyperedges[a]) = k
      /\ \A p \in 1 .. k :
           /\ hyperedges[a][p] = normalized_similarity_scores[a][p][1]
           /\ normalized_similarity_scores[a][p][2] =
                Rank(similarity_scores, a, hyperedges[a][p])
      /\ \A p \in 1 .. (k - 1) :
           /\ FLe(normalized_similarity_scores[a][p][2],
                  normalized_similarity_scores[a][p + 1][2])
           /\ normalized_similarity_scores[a][p][2] =
                normalized_similarity_scores[a][p + 1][2]
                => hyperedges[a][p] < hyperedges[a][p + 1]

C3_Witness ==
  /\ pc = "create_edge_associations"
  /\ i >= 1
  /\ k >= 2
  /\ \E a \in Items : \E p \in 1 .. (k - 1) :
       normalized_similarity_scores[a][p][2] =
         normalized_similarity_scores[a][p + 1][2]
  /\ \E a \in Items : \E p \in 1 .. (k - 1) :
       FLt(normalized_similarity_scores[a][p][2],
           normalized_similarity_scores[a][p + 1][2])

\* The scenario's features: items 0 and 1 are closer to each other, and so
\* are items 2 and 3, than any item of one pair is to an item of the other,
\* and the pairs are further apart than the zero-distance constant.
TwoClosePairs ==
  /\ N = 4
  /\ \A a \in {0, 1} : \A b \in {2, 3} :
       /\ FLt(Distance(features, 0, 1), Distance(features, a, b))
       /\ FLt(Distance(features, 2, 3), Distance(features, a, b))
       /\ FLt(ZeroDistance, Distance(features, a, b))

ScenarioRetrieved ==
  /\ TwoClosePairs
  /\ k = 2
  /\ number_of_iterations = 1
  /\ pc \in {"calculate_accuracy", "done"}

C5_FailsBeforeTheLoop ==
  k > N =>
    /\ normalized_similarity_scores = Unset
    /\ pc \in {"calculate_similarity", "rank_normalization", "aborted"}
    /\ i = 0

\* C6: after rank_normalization, in every round, the rank value paired with
\* id b in item a's ranked list equals the rank value paired with id a in
\* item b's ranked list.
C6_RankSymmetric ==
  pc = "get_hypergraph_construction" =>
    \A a \in Items : \A b \in Items :
      RankValue(normalized_similarity_scores[a], b) =
        RankValue(normalized_similarity_scores[b], a)

C6_Witness ==
  /\ pc = "get_hypergraph_construction"
  /\ i >= 1
  /\ \E a \in Items : \E b \in Items :
       similarity_scores[a][b][2] # similarity_scores[b][a][2]

\* C7: after create_edge_associations, A[a][b] is 0 exactly when b is not a
\* member of hyperedge a; the entry of the member at position p (1 <= p <= k)
\* satisfies 0 < A <= 1, equals 1 only at p = 1, and the entries strictly
\* decrease with the position.
C7_AssociationBounds ==
  pc = "create_edge_weights" =>
    \A a \in Items :
      /\ \A b \in Items :
           edge_associations[a][b] = FZero <=> ~Member(hyperedges[a], b)
      /\ \A p \in 1 .. k :
           LET v == edge_associations[a][hyperedges[a][p]]
           IN /\ FLt(FZero, v)
              /\ FLe(v, FOne)
              /\ v = FOne <=> p = 1
      /\ \A p \in 1 .. k : \A q \in 1 .. k :
           p < q => FLt(edge_associations[a][hyperedges[a][q]],
                        edge_associations[a][hyperedges[a][p]])

C7_Witness ==
  /\ pc = "create_edge_weights"
  /\ k >= 3
  /\ N > k
  /\ i >= 1

\* C8: every score fed into rank_normalization is non-negative, in the first
\* round even positive (also for a zero distance between distinct items),
\* and every entry of A, of the weight vector, of C, of S and of F is
\* non-negative.
C8_NonNegativeValues ==
  /\ pc = "rank_normalization" =>
       \A a \in Items : \A b \in Items :
         /\ Man(similarity_scores[a][b][2]) >= 0
         /\ i = 0 => Man(similarity_scores[a][b][2]) > 0
  /\ edge_associations # Unset => NonNegative(edge_associations)
  /\ edge_weights # Unset => \A a \in Items : Man(edge_weights[a]) >= 0
  /\ matrix_c # Unset => NonNegative(matrix_c)
  /\ hyperedges_similarities # Unset => NonNegative(hyperedges_similarities)
  /\ affinity_matrix # Unset => NonNegative(affinity_matrix)

C8_Witness ==
  /\ pc = "rank_normalization"
  /\ i >= 1
  /\ \E a \in Items : \E b \in Items :
       /\ a # b
       /\ features[a] = features[b]
       /\ similarity_scores[a][b][2] # FZero
  /\ \E a \in Items : \E b \in Items : similarity_scores[a][b][2] = FZero

\* C9: after any number of rounds >= 1 (k <= N) the list handed to
\* calculate_accuracy is not empty, so count / len(retrieved_images) never
\* divides by zero.
C9_RetrievedNotEmpty ==
  /\ (pc = "calculate_accuracy" /\ number_of_iterations >= 1)
       => Len(retrieved_images) > 0
  /\ error # "ZeroDivisionError"

\* The sum of the associations of the positions 1 .. n of a hyperedge of
\* size kk.
RECURSIVE PositionWeightSum(_, _)
PositionWeightSum(n, kk) ==
  IF n = 0 THEN FZero
  ELSE FAdd(PositionWeightSum(n - 1, kk), FSub(FOne, Log(n, kk + 1)))

\* C10: after create_edge_weights, in every round, every hyperedge has the
\* same weight, the sum over the positions p = 1 .. k of 1 - log_{k+1}(p):
\* the weight vector depends on k only.
C10_WeightsAllEqual ==
  pc = "get_hyperedges_similarities" =>
    \A a \in Items :
      /\ edge_weights[a] = PositionWeightSum(k, k)
      /\ \A b \in Items : edge_weights[a] = edge_weights[b]

C10_Witness ==
  /\ pc = "get_hyperedges_similarities"
  /\ k >= 2
  /\ i >= 1
  /\ \E a \in Items : \E b \in Items : hyperedges[a] # hyperedges[b]

====
